---- MODULE Spec2Model ----
(***************************************************************************)
(* State-machine model of the MenuPage component (menu browsing, cart      *)
(* store, order notes).  Both observed variants of the page share the cart *)
(* store code verbatim; where they differ the variant is named.            *)
(*                                                                         *)
(* JavaScript values that the code distinguishes (undefined, null, number, *)
(* array) are modelled as records of one shape, so that `x || 0`,          *)
(* `Array.isArray(x)` and `x[0]` can be computed as the code computes them. *)
(***************************************************************************)
EXTENDS Integers, Sequences, FiniteSets, TLC

(***************************************************************************)
(* Bounds of the model.                                                    *)
(***************************************************************************)
\* Largest quantity a cart line is driven to.
MaxQty == 2

(***************************************************************************)
(* JavaScript values.                                                      *)
(***************************************************************************)
Undefined == [t |-> "undefined", n |-> 0, a |-> <<>>]
Null == [t |-> "null", n |-> 0, a |-> <<>>]
Num(k) == [t |-> "num", n |-> k, a |-> <<>>]
Arr(s) == [t |-> "arr", n |-> 0, a |-> s]
EmptyString == [t |-> "str", n |-> 0, a |-> <<>>]

\* Array.isArray(v)
IsArray(v) == v.t = "arr"

\* v || 0, for v undefined, null or a number (0 is falsy)
OrZero(v) == IF v.t = "num" /\ v.n # 0 THEN v.n ELSE 0

(***************************************************************************)
(* Strings.  Names and texts are atoms; Chars gives the characters of the  *)
(* strings the search reads, so that toLowerCase() and includes() are      *)
(* computed, not assumed.  Upper-case letters stand for themselves, the    *)
(* localized (Arabic) texts are written with the letters x, y, z.          *)
(***************************************************************************)
Chars(s) ==
  CASE s = "" -> <<>>
    [] s = "Kofta" -> <<"K", "o", "f", "t", "a">>
    [] s = "Fattah" -> <<"F", "a", "t", "t", "a", "h">>
    [] s = "Molokhia" -> <<"M", "o", "l", "o", "k", "h", "i", "a">>
    [] s = "Rice" -> <<"R", "i", "c", "e">>
    [] s = "xy" -> <<"x", "y">>
    [] s = "yz" -> <<"y", "z">>
    [] s = "zx" -> <<"z", "x">>
    [] s = "fa" -> <<"f", "a">>
    [] s = "FA" -> <<"F", "A">>
    [] s = "y" -> <<"y">>
    [] s = "qq" -> <<"q", "q">>
    [] s = "Xy" -> <<"X", "y">>
    [] s = "ri" -> <<"r", "i">>
    [] s = "Ko" -> <<"K", "o">>
    [] s = "Hummus" -> <<"H", "u", "m", "m", "u", "s">>
    [] s = "Falafel" -> <<"F", "a", "l", "a", "f", "e", "l">>
    [] s = "Tahini" -> <<"T", "a", "h", "i", "n", "i">>
    [] s = "Salad" -> <<"S", "a", "l", "a", "d">>
    [] s = "Bread" -> <<"B", "r", "e", "a", "d">>

\* String.prototype.toLowerCase, per character
LowerChar(ch) ==
  CASE ch = "K" -> "k" [] ch = "F" -> "f" [] ch = "M" -> "m"
    [] ch = "R" -> "r" [] ch = "A" -> "a" [] ch = "X" -> "x"
    [] ch = "H" -> "h" [] ch = "T" -> "t" [] ch = "S" -> "s"
    [] ch = "B" -> "b" [] OTHER -> ch

toLowerCase(cs) == [i \in 1..Len(cs) |-> LowerChar(cs[i])]

\* String.prototype.includes on character sequences
includes(cs, q) ==
  \E i \in 0..(Len(cs) - Len(q)) : \A j \in 1..Len(q) : cs[i + j] = q[j]

(***************************************************************************)
(* The catalog (menu.json).  The data file is not part of the sources; the *)
(* catalog below has a scalar price, an ascending range, a descending      *)
(* range and an empty range, and each name in both categories with         *)
(* different prices (names are the only identity the code uses).  An empty *)
(* string stands for an absent optional text field.                        *)
(***************************************************************************)
Item(nm, ar, de, dar, pr) ==
  [name |-> nm, name_ar |-> ar, description |-> de, description_ar |-> dar,
   price |-> pr]

CategoryIds == <<"mains", "trays">>

menuData ==
  [c \in {"mains", "trays"} |->
     IF c = "mains"
     THEN [name |-> "Mains", name_ar |-> "xy",
           items |-> << Item("Kofta", "xy", "Rice", "", Num(45)),
                        Item("Fattah", "yz", "", "zx", Arr(<<80, 120>>)) >>]
     ELSE [name |-> "Trays", name_ar |-> "",
           items |-> << Item("Kofta", "xy", "", "", Arr(<<120, 80>>)),
                        Item("Fattah", "", "", "yz", Arr(<<>>)) >>]]

\* A longer catalog for the filter/sort engine: nine items in the first
\* category (one more than the page shows at once), with equal sort keys,
\* an empty range, a one-price range, absent and null prices, and localized
\* texts that differ from a query only by case.
browseMenu ==
  [c \in {"mains", "trays"} |->
     IF c = "mains"
     THEN [name |-> "Mains", name_ar |-> "xy",
           items |-> << Item("Kofta", "Xy", "Rice", "", Num(45)),
                        Item("Fattah", "yz", "", "zx", Arr(<<80, 120>>)),
                        Item("Molokhia", "", "", "", Arr(<<>>)),
                        Item("Rice", "xy", "Kofta", "", Arr(<<120, 80>>)),
                        Item("Hummus", "", "", "Xy", Null),
                        Item("Falafel", "zx", "", "", Undefined),
                        Item("Tahini", "", "Rice", "", Num(45)),
                        Item("Salad", "y", "", "", Arr(<<45>>)),
                        Item("Bread", "", "", "", Num(120)) >>]
     ELSE [name |-> "Trays", name_ar |-> "",
           items |-> << Item("Kofta", "xy", "", "", Arr(<<120, 80>>)),
                        Item("Bread", "", "", "", Num(100)),
                        Item("Salad", "", "", "Xy", Num(120)) >>]]

\* Catalogs the page is mounted with.
Catalogs == {menuData, browseMenu}

Range(s) == {s[i] : i \in 1..Len(s)}

AllItems == UNION {Range(menuData[c].items) : c \in DOMAIN menuData}

\* Items handed to the store functions when they are called directly: the
\* catalog's items and, under a third name, an item with a null price and
\* one without a price.
Items ==
  AllItems \cup {Item("Molokhia", "", "Rice", "", Null),
                 Item("Molokhia", "zx", "", "", Undefined)}
Names == {it.name : it \in Items}

\* Inputs of the controls: what can be typed in the search box and the notes
\* field, and the options of the sort select.
Queries == {"", "ri"}
\* What is typed when only the engine is exercised.
BrowseQueries == {"", "ri", "fa", "FA", "xy", "Xy", "Ko", "y", "qq"}
NoteTexts == {"", "no onions"}
SortModes == {"default", "low-high", "high-low"}
Languages == {"en", "ar"}

\* selectedItem before any card was clicked (null)
NoItem == Item("", "", "", "", Undefined)

(***************************************************************************)
(* Texts.  getText reads item[field + '_ar'] and item[field]; a field the  *)
(* object does not have reads as undefined, which like the empty string is *)
(* falsy.  NoItem stands for a null or undefined item.                     *)
(***************************************************************************)
\* Field names getText is called with, and one no object has.
TextFields == {"name", "description", "subtitle"}

\* item[key] || ''
TextOf(item, key) == IF key \in DOMAIN item THEN item[key] ELSE ""

\* `${field}_ar`
LocalizedKey(field) ==
  CASE field = "name" -> "name_ar"
    [] field = "description" -> "description_ar"
    [] OTHER -> "subtitle_ar"

\* the localized text or nothing
getText_LocalizedOnly(item, field, lang) ==
  IF item = NoItem THEN ""
  ELSE IF lang = "ar" THEN TextOf(item, LocalizedKey(field))
  ELSE TextOf(item, field)

getText(item, field, lang) ==
  IF item = NoItem THEN ""
  ELSE IF lang = "ar"
       THEN (IF TextOf(item, LocalizedKey(field)) # ""
             THEN TextOf(item, LocalizedKey(field))
             ELSE TextOf(item, field))
  ELSE TextOf(item, field)

(***************************************************************************)
(* Prices as text.  A formatted price is the currency word put before it   *)
(* ("EGP", or "LE" for the Arabic abbreviation) and the numbers rendered,  *)
(* two of them with a dash in between (toLocaleString only groups digits). *)
(***************************************************************************)
\* Math.min(...) and Math.max(...) of a non-empty list
RECURSIVE MinOf(_)
MinOf(s) ==
  IF Len(s) = 1 THEN s[1]
  ELSE LET m == MinOf(Tail(s)) IN IF s[1] < m THEN s[1] ELSE m

RECURSIVE MaxOf(_)
MaxOf(s) ==
  IF Len(s) = 1 THEN s[1]
  ELSE LET m == MaxOf(Tail(s)) IN IF s[1] > m THEN s[1] ELSE m

Formatted(currency, values) == [currency |-> currency, values |-> values]

\* language === 'en' ? 'EGP 0' : <the same with the Arabic abbreviation>
MissingPriceLiteral(lang) ==
  IF lang = "en" THEN Formatted("EGP", <<0>>) ELSE Formatted("LE", <<0>>)

\* the first price of a range only
formatPrice_FirstOnly(price, lang) ==
  IF price \in {Null, Undefined, EmptyString} THEN MissingPriceLiteral(lang)
  ELSE IF IsArray(price)
       THEN (IF Len(price.a) = 0 THEN MissingPriceLiteral(lang)
             ELSE Formatted("EGP", <<price.a[1]>>))
  ELSE Formatted("EGP", <<price.n>>)

formatPrice(price, lang) ==
  IF price \in {Null, Undefined, EmptyString} THEN MissingPriceLiteral(lang)
  ELSE IF IsArray(price)
       THEN (IF Len(price.a) = 0 THEN MissingPriceLiteral(lang)
             ELSE LET minPrice == MinOf(price.a)
                      maxPrice == MaxOf(price.a)
                  IN IF minPrice = maxPrice THEN Formatted("EGP", <<minPrice>>)
                     ELSE IF lang = "en"
                          THEN Formatted("EGP", <<minPrice, maxPrice>>)
                          ELSE Formatted("LE", <<minPrice, maxPrice>>))
  ELSE Formatted("EGP", <<price.n>>)

(***************************************************************************)
(* State of the component (useState hooks).                                *)
(***************************************************************************)
VARIABLES
  menu,               \* the catalog (the imported menuData object)
  selectedCategory,   \* id of the category shown
  isItemModalOpen,    \* item detail modal flag
  selectedItem,       \* item of the detail modal, NoItem for null
  searchQuery,        \* text of the search box
  priceSort,          \* sort mode
  visibleItems,       \* cap on the number of cards shown
  cart,               \* sequence of cart lines
  isCartOpen,         \* cart modal flag
  orderNotes,         \* free-text notes of the order
  language,           \* active language
  call,               \* the store function called last, with its arguments
                      \* (recorded only when the store is driven directly)
  event,              \* the control of the ordering flow operated last, or
                      \* the image callback run last (recorded only in the
                      \* ordering flow and with the image callbacks)
  imageLoadStates,    \* names of the items whose image flag is true
  heroImagesLoaded    \* ids of the categories whose hero flag is true

vars == <<menu, selectedCategory, isItemModalOpen, selectedItem, searchQuery,
          priceSort, visibleItems, cart, isCartOpen, orderNotes, language,
          call, event, imageLoadStates, heroImagesLoaded>>

\* The browsing state: everything but the catalog, the cart, the notes and
\* the two records.
selection == <<selectedCategory, isItemModalOpen, selectedItem, searchQuery,
               priceSort, visibleItems, isCartOpen, language>>

(***************************************************************************)
(* Filter/sort engine.                                                     *)
(***************************************************************************)
\* useState(8) and the setVisibleItems(8) of the effect on selectedCategory
\* and searchQuery (1000 in the other variant of the page).
InitialVisibleItems == 8

\* the localized texts compared with the lower-cased query as well
MatchesQuery_LowersLocalized(item, q) ==
  \/ includes(toLowerCase(Chars(item.name)), toLowerCase(Chars(q)))
  \/ (item.name_ar # "" /\ includes(Chars(item.name_ar), toLowerCase(Chars(q))))
  \/ (item.description # ""
      /\ includes(toLowerCase(Chars(item.description)), toLowerCase(Chars(q))))
  \/ (item.description_ar # ""
      /\ includes(Chars(item.description_ar), toLowerCase(Chars(q))))

\* The predicate of items.filter(...) for a non-empty searchQuery.
MatchesQuery(item, q) ==
  \/ includes(toLowerCase(Chars(item.name)), toLowerCase(Chars(q)))
  \/ (item.name_ar # "" /\ includes(Chars(item.name_ar), Chars(q)))
  \/ (item.description # ""
      /\ includes(toLowerCase(Chars(item.description)), toLowerCase(Chars(q))))
  \/ (item.description_ar # "" /\ includes(Chars(item.description_ar), Chars(q)))

\* Sort keys are numbers or +/-Infinity (Math.min() of no argument is
\* Infinity, Math.max() is -Infinity): inf is -1, 0 or 1.
Fin(k) == [inf |-> 0, n |-> k]
PosInf == [inf |-> 1, n |-> 0]
NegInf == [inf |-> -1, n |-> 0]

\* the first price of a range instead of its minimum
LowKey_FirstPrice(p) ==
  IF IsArray(p) THEN (IF Len(p.a) = 0 THEN PosInf ELSE Fin(p.a[1]))
  ELSE Fin(OrZero(p))

\* Array.isArray(p) ? Math.min(...p) : (p || 0)
LowKey(p) ==
  IF IsArray(p) THEN (IF Len(p.a) = 0 THEN PosInf ELSE Fin(MinOf(p.a)))
  ELSE Fin(OrZero(p))

\* Array.isArray(p) ? Math.max(...p) : (p || 0)
HighKey(p) ==
  IF IsArray(p) THEN (IF Len(p.a) = 0 THEN NegInf ELSE Fin(MaxOf(p.a)))
  ELSE Fin(OrZero(p))

\* The comparator's result x - y is negative (Infinity - Infinity is NaN,
\* which sort treats as 0).
Negative(x, y) ==
  IF x.inf = 0 /\ y.inf = 0 THEN x.n < y.n ELSE x.inf < y.inf

\* a comparator that is negative for equal keys too
Before_NonStrict(a, b, mode) ==
  IF mode = "low-high" THEN ~Negative(LowKey(b.price), LowKey(a.price))
  ELSE ~Negative(HighKey(a.price), HighKey(b.price))

\* a sorts before b under the comparator of the sort mode
Before(a, b, mode) ==
  IF mode = "low-high" THEN Negative(LowKey(a.price), LowKey(b.price))
  ELSE Negative(HighKey(b.price), HighKey(a.price))

\* Array.prototype.sort is stable: an element is inserted after every
\* element that does not sort after it.
RECURSIVE InsertSorted(_, _, _)
InsertSorted(sorted, x, mode) ==
  IF sorted = <<>> THEN <<x>>
  ELSE IF Before(x, sorted[1], mode) THEN <<x>> \o sorted
  ELSE <<sorted[1]>> \o InsertSorted(Tail(sorted), x, mode)

RECURSIVE SortItems(_, _)
SortItems(items, mode) ==
  IF items = <<>> THEN <<>>
  ELSE InsertSorted(SortItems(SubSeq(items, 1, Len(items) - 1), mode),
                    items[Len(items)], mode)

getFilteredAndSortedItems(category, query, mode) ==
  IF category \notin DOMAIN menu THEN <<>>
  ELSE LET all == menu[category].items
           kept == IF query # ""
                   THEN SelectSeq(all, LAMBDA it : MatchesQuery(it, query))
                   ELSE all
       IN IF mode \in {"low-high", "high-low"} THEN SortItems(kept, mode)
          ELSE kept

filteredItems == getFilteredAndSortedItems(selectedCategory, searchQuery, priceSort)

\* What a render leaves of the catalog m: filter and sort work on
\* `[...categoryData.items]`, a copy, so the in-place Array.prototype.sort
\* reorders the copy only.
CatalogAfterRender_SortsInPlace(m, category, query, mode) ==
  IF category \in DOMAIN m /\ query = "" /\ mode \in {"low-high", "high-low"}
  THEN [m EXCEPT ![category].items = SortItems(@, mode)]
  ELSE m

CatalogAfterRender(m, category, query, mode) == m

\* The render that follows every state change of the component.
Render ==
  menu' = CatalogAfterRender(menu, selectedCategory', searchQuery', priceSort')

\* filteredItems.slice(0, visibleItems)
displayedItems_Uncapped == filteredItems

displayedItems ==
  SubSeq(filteredItems, 1,
         IF Len(filteredItems) < visibleItems THEN Len(filteredItems)
         ELSE visibleItems)

\* the notice shown whenever a search is active
NoResultsNotice_WhenSearching == searchQuery # ""

\* The 'no dishes found' notice: displayedItems.length === 0
NoResultsNotice == Len(displayedItems) = 0

(***************************************************************************)
(* Cart store.  Each function is the state updater the code hands to       *)
(* setCart, applied to the cart c.                                         *)
(***************************************************************************)
\* { ...item, price: cartPrice, quantity }
Line(item, cartPrice, quantity) ==
  [name |-> item.name, name_ar |-> item.name_ar,
   description |-> item.description, description_ar |-> item.description_ar,
   price |-> cartPrice, quantity |-> quantity]

\* Array.isArray(item.price) ? item.price[0] : (item.price || 0)
CartPrice(item) ==
  IF IsArray(item.price)
  THEN (IF Len(item.price.a) = 0 THEN Undefined ELSE Num(item.price.a[1]))
  ELSE Num(OrZero(item.price))

\* prev.find(cartItem => cartItem.name === name) finds a line
HasLine(c, name) == \E i \in 1..Len(c) : c[i].name = name

\* the line that find returns: the first of that name
FindLine(c, name) ==
  c[CHOOSE i \in 1..Len(c) :
      c[i].name = name /\ \A j \in 1..(i - 1) : c[j].name # name]

\* addToCart without the lookup of an existing line
addToCart_AlwaysAppends(c, item, quantity) ==
  IF item = NoItem THEN c
  ELSE Append(c, Line(item, CartPrice(item), quantity))

\* addToCart overwriting the quantity of an existing line
addToCart_SetsQuantity(c, item, quantity) ==
  IF item = NoItem THEN c
  ELSE IF HasLine(c, item.name)
  THEN [i \in 1..Len(c) |->
          IF c[i].name = item.name
          THEN [c[i] EXCEPT !.quantity = quantity]
          ELSE c[i]]
  ELSE Append(c, Line(item, CartPrice(item), quantity))

\* addToCart refreshing the price of an existing line
addToCart_Reprices(c, item, quantity) ==
  IF item = NoItem THEN c
  ELSE IF HasLine(c, item.name)
  THEN [i \in 1..Len(c) |->
          IF c[i].name = item.name
          THEN [c[i] EXCEPT !.quantity = c[i].quantity + quantity,
                            !.price = CartPrice(item)]
          ELSE c[i]]
  ELSE Append(c, Line(item, CartPrice(item), quantity))

addToCart(c, item, quantity) ==
  IF item = NoItem THEN c
  ELSE IF HasLine(c, item.name)
  THEN [i \in 1..Len(c) |->
          IF c[i].name = item.name
          THEN [c[i] EXCEPT !.quantity = c[i].quantity + quantity]
          ELSE c[i]]
  ELSE Append(c, Line(item, CartPrice(item), quantity))

\* removeFromCart moving the last line into the place of the removed one
removeFromCart_SwapsLast(c, itemName) ==
  IF HasLine(c, itemName)
  THEN LET i == CHOOSE k \in 1..Len(c) : c[k].name = itemName
       IN SubSeq([c EXCEPT ![i] = c[Len(c)]], 1, Len(c) - 1)
  ELSE c

\* removeFromCart cutting the cart at the line
removeFromCart_Truncates(c, itemName) ==
  IF HasLine(c, itemName)
  THEN SubSeq(c, 1, (CHOOSE i \in 1..Len(c) : c[i].name = itemName) - 1)
  ELSE c

removeFromCart(c, itemName) ==
  SelectSeq(c, LAMBDA ln : ln.name # itemName)

\* updateQuantity with the test newQuantity < 0
updateQuantity_KeepsZero(c, itemName, newQuantity) ==
  IF newQuantity < 0 THEN removeFromCart(c, itemName)
  ELSE [i \in 1..Len(c) |->
          IF c[i].name = itemName
          THEN [c[i] EXCEPT !.quantity = newQuantity]
          ELSE c[i]]

\* updateQuantity adding newQuantity to the line
updateQuantity_Increments(c, itemName, newQuantity) ==
  IF newQuantity <= 0 THEN removeFromCart(c, itemName)
  ELSE [i \in 1..Len(c) |->
          IF c[i].name = itemName
          THEN [c[i] EXCEPT !.quantity = c[i].quantity + newQuantity]
          ELSE c[i]]

updateQuantity(c, itemName, newQuantity) ==
  IF newQuantity <= 0 THEN removeFromCart(c, itemName)
  ELSE [i \in 1..Len(c) |->
          IF c[i].name = itemName
          THEN [c[i] EXCEPT !.quantity = newQuantity]
          ELSE c[i]]

\* cart.reduce((sum, item) => sum + (item.quantity || 0), 0)
\* the number of lines instead
TotalItemsOf_CountsLines(c) == Len(c)

\* cart.reduce((sum, item) => sum + (item.quantity || 0), 0)
RECURSIVE TotalItemsOf(_)
TotalItemsOf(c) ==
  IF c = <<>> THEN 0
  ELSE TotalItemsOf(SubSeq(c, 1, Len(c) - 1))
       + (IF c[Len(c)].quantity # 0 THEN c[Len(c)].quantity ELSE 0)

\* the total without the quantities
RECURSIVE TotalPriceOf_IgnoresQuantity(_)
TotalPriceOf_IgnoresQuantity(c) ==
  IF c = <<>> THEN 0
  ELSE TotalPriceOf_IgnoresQuantity(SubSeq(c, 1, Len(c) - 1)) + OrZero(c[Len(c)].price)

\* cart.reduce((sum, item) => sum + ((item.price || 0) * (item.quantity || 0)), 0)
RECURSIVE TotalPriceOf(_)
TotalPriceOf(c) ==
  IF c = <<>> THEN 0
  ELSE TotalPriceOf(SubSeq(c, 1, Len(c) - 1))
       + OrZero(c[Len(c)].price)
         * (IF c[Len(c)].quantity # 0 THEN c[Len(c)].quantity ELSE 0)

getTotalItems == TotalItemsOf(cart)
getTotalPrice == TotalPriceOf(cart)

(***************************************************************************)
(* Order composer (handleWhatsAppOrder).  The message is the sequence of   *)
(* the pieces the code appends; a piece records what the code puts in it:  *)
(* the language of its fixed words, and the quantity, name, amount or text *)
(* it interpolates (numbers stay numbers, toLocaleString only groups their *)
(* digits).                                                                *)
(***************************************************************************)
Piece(part, label, quantity, name, amount) ==
  [part |-> part, label |-> label, quantity |-> quantity, name |-> name,
   amount |-> amount]

\* language === 'en' ? <English words> : <Arabic words>
WordsOf(lang) == IF lang = "en" THEN "en" ELSE "ar"

\* the primary name whatever the language
BulletLine_PrimaryName(ln, lang) ==
  Piece("bullet", "", ln.quantity, ln.name,
        OrZero(ln.price) * (IF ln.quantity # 0 THEN ln.quantity ELSE 0))

\* `• ${item.quantity}x ${itemName} - EGP ${(item.price || 0) * (item.quantity || 0)}`
BulletLine(ln, lang) ==
  Piece("bullet", "", ln.quantity,
        IF lang = "ar" /\ ln.name_ar # "" THEN ln.name_ar ELSE ln.name,
        OrZero(ln.price) * (IF ln.quantity # 0 THEN ln.quantity ELSE 0))

OrderMessage(c, lang, notes) ==
  <<Piece("greeting", WordsOf(lang), 0, "", 0)>>
  \o [i \in 1..Len(c) |-> BulletLine(c[i], lang)]
  \o <<Piece("total", WordsOf(lang), 0, "", TotalPriceOf(c))>>
  \o (IF notes # "" THEN <<Piece("notes", WordsOf(lang), 0, notes, 0)>> ELSE <<>>)
  \o <<Piece("thanks", WordsOf(lang), 0, "", 0)>>

(***************************************************************************)
(* Initial state: the useState initialisers.                               *)
(***************************************************************************)
NoCall ==
  [op |-> "none", item |-> NoItem, name |-> "", quantity |-> 0, had |-> FALSE]

NoEvent == [kind |-> "none", name |-> "", message |-> <<>>]

\* the fallback id whatever the catalog
InitialCategory_Fallback == "trays"

\* Object.keys(menuData)[0] || 'trays'
InitialCategory ==
  IF CategoryIds # <<>> /\ CategoryIds[1] # "" THEN CategoryIds[1] ELSE "trays"

Mounted ==
  /\ selectedCategory = InitialCategory
  /\ isItemModalOpen = FALSE
  /\ selectedItem = NoItem
  /\ searchQuery = ""
  /\ priceSort = "default"
  /\ visibleItems = InitialVisibleItems
  /\ cart = <<>>
  /\ isCartOpen = FALSE
  /\ orderNotes = ""
  /\ language = "ar"
  /\ call = NoCall
  /\ event = NoEvent
  /\ imageLoadStates = {}
  /\ heroImagesLoaded = {}

Init == menu = menuData /\ Mounted

\* quantity of the line of that name, 0 when there is none
QuantityOf(c, name) == IF HasLine(c, name) THEN FindLine(c, name).quantity ELSE 0

(***************************************************************************)
(* Event handlers of the page.  The controls of the page itself stay       *)
(* operable (by keyboard) under an open modal; the controls of a modal     *)
(* exist only while the modal is rendered.                                 *)
(***************************************************************************)
\* language switcher buttons
SetLanguage(l) ==
  /\ language' = l
  /\ UNCHANGED <<selectedCategory, isItemModalOpen, selectedItem, searchQuery,
                 priceSort, visibleItems, cart, isCartOpen, orderNotes, call>>

\* search box onChange; the effect on [selectedCategory, searchQuery] puts
\* the cap back
SetSearchQuery(q) ==
  /\ searchQuery' = q
  /\ visibleItems' = IF q # searchQuery THEN InitialVisibleItems ELSE visibleItems
  /\ UNCHANGED <<selectedCategory, isItemModalOpen, selectedItem, priceSort,
                 cart, isCartOpen, orderNotes, language, call>>

\* sort select onChange
SetPriceSort(m) ==
  /\ priceSort' = m
  /\ UNCHANGED <<selectedCategory, isItemModalOpen, selectedItem, searchQuery,
                 visibleItems, cart, isCartOpen, orderNotes, language, call>>

\* a category button that starts a new cart
SetSelectedCategory_EmptiesCart(c) ==
  /\ selectedCategory' = c
  /\ visibleItems' = IF c # selectedCategory THEN InitialVisibleItems
                     ELSE visibleItems
  /\ cart' = IF c # selectedCategory THEN <<>> ELSE cart
  /\ UNCHANGED <<isItemModalOpen, selectedItem, searchQuery, priceSort,
                 isCartOpen, orderNotes, language, call>>

\* category button, with the same effect
SetSelectedCategory(c) ==
  /\ selectedCategory' = c
  /\ visibleItems' = IF c # selectedCategory THEN InitialVisibleItems
                     ELSE visibleItems
  /\ UNCHANGED <<isItemModalOpen, selectedItem, searchQuery, priceSort, cart,
                 isCartOpen, orderNotes, language, call>>

\* The three handlers of an item card; the cards rendered are those of
\* displayedItems.
\* click on an item card: handleItemClick(item)
ItemClick(item) ==
  /\ selectedItem' = item
  /\ isItemModalOpen' = TRUE
  /\ UNCHANGED <<selectedCategory, searchQuery, priceSort, visibleItems, cart, isCartOpen,
                 orderNotes, language, call>>

\* '+' of an item card: addToCart(item)
CardPlus(item) ==
  /\ QuantityOf(cart, item.name) < MaxQty
  /\ cart' = addToCart(cart, item, 1)
  /\ UNCHANGED <<selection, orderNotes, call>>

\* '-' of an item card: updateQuantity(item.name, cartItem.quantity - 1) when
\* the cart has a line of that name, nothing otherwise
CardMinus(item) ==
  /\ cart' = IF HasLine(cart, item.name)
             THEN updateQuantity(cart, item.name, FindLine(cart, item.name).quantity - 1)
             ELSE cart
  /\ UNCHANGED <<selection, orderNotes, call>>

\* the proceed-to-order button (floating cart button in the other variant),
\* rendered while getTotalItems() > 0
OpenCart ==
  /\ getTotalItems > 0
  /\ isCartOpen' = TRUE
  /\ UNCHANGED <<selectedCategory, isItemModalOpen, selectedItem, searchQuery,
                 priceSort, visibleItems, cart, orderNotes, language, call>>

\* backdrop and Close button of the cart modal
CloseCart ==
  /\ isCartOpen
  /\ isCartOpen' = FALSE
  /\ UNCHANGED <<selectedCategory, isItemModalOpen, selectedItem, searchQuery,
                 priceSort, visibleItems, cart, orderNotes, language, call>>

ClearCart_KeepsNotes ==
  /\ isCartOpen /\ Len(cart) > 0
  /\ cart' = <<>>
  /\ UNCHANGED <<selection, orderNotes, call>>

\* 'Clear All' of the cart modal: clearCart(), whose two setter calls are
\* made in one event handler and shown by one render
ClearCart ==
  /\ isCartOpen /\ Len(cart) > 0
  /\ cart' = <<>>
  /\ orderNotes' = ""
  /\ UNCHANGED <<selection, call>>

\* a remove button that resets the notes with the last line
CartRemove_LastLineClearsNotes(i) ==
  /\ isCartOpen /\ i \in 1..Len(cart)
  /\ cart' = removeFromCart(cart, cart[i].name)
  /\ orderNotes' = IF Len(cart) = 1 THEN "" ELSE orderNotes
  /\ UNCHANGED <<selection, call>>

\* the remove button of line i of the cart modal
CartRemove(i) ==
  /\ isCartOpen /\ i \in 1..Len(cart)
  /\ cart' = removeFromCart(cart, cart[i].name)
  /\ UNCHANGED <<selection, orderNotes, call>>

\* '-' of line i of the cart modal
CartMinus(i) ==
  /\ isCartOpen /\ i \in 1..Len(cart)
  /\ cart' = updateQuantity(cart, cart[i].name, cart[i].quantity - 1)
  /\ UNCHANGED <<selection, orderNotes, call>>

\* '+' of line i of the cart modal
CartPlus(i) ==
  /\ isCartOpen /\ i \in 1..Len(cart)
  /\ cart[i].quantity < MaxQty
  /\ cart' = updateQuantity(cart, cart[i].name, cart[i].quantity + 1)
  /\ UNCHANGED <<selection, orderNotes, call>>

\* notes textarea of the cart modal, rendered while the cart has lines
SetOrderNotes(text) ==
  /\ isCartOpen /\ Len(cart) > 0
  /\ orderNotes' = text
  /\ UNCHANGED <<selection, cart, call>>

\* 'Add to Cart' of the item modal: addToCart(selectedItem), then close
ModalAddToCart ==
  /\ isItemModalOpen /\ selectedItem # NoItem
  /\ QuantityOf(cart, selectedItem.name) < MaxQty
  /\ cart' = addToCart(cart, selectedItem, 1)
  /\ isItemModalOpen' = FALSE
  /\ UNCHANGED <<selectedCategory, selectedItem, searchQuery, priceSort, visibleItems,
                 isCartOpen, orderNotes, language, call>>

\* backdrop and Close button of the item modal
CloseItemModal ==
  /\ isItemModalOpen /\ selectedItem # NoItem
  /\ isItemModalOpen' = FALSE
  /\ UNCHANGED <<selectedCategory, selectedItem, searchQuery, priceSort, visibleItems, cart,
                 isCartOpen, orderNotes, language, call>>

\* an Escape key that closes one modal per press, the item modal first
Escape_TopmostOnly ==
  /\ isItemModalOpen \/ isCartOpen
  /\ isItemModalOpen' = FALSE
  /\ isCartOpen' = (isCartOpen /\ isItemModalOpen)
  /\ UNCHANGED <<selectedCategory, selectedItem, searchQuery, priceSort, visibleItems, cart,
                 orderNotes, language, call>>

\* Escape key, listened to while a modal is open
Escape ==
  /\ isItemModalOpen \/ isCartOpen
  /\ isItemModalOpen' = FALSE
  /\ isCartOpen' = FALSE
  /\ UNCHANGED <<selectedCategory, selectedItem, searchQuery, priceSort, visibleItems, cart,
                 orderNotes, language, call>>

\* a checkout button in the cart modal whatever the cart holds
CheckoutShown_WhileOpen == isCartOpen

\* The checkout button is in the branch of the cart modal rendered when
\* cart.length is not 0 (the other branch shows the empty-cart notice).
CheckoutShown == isCartOpen /\ Len(cart) > 0

\* The floating order button is rendered while getTotalItems() > 0.
FloatingOrderShown == getTotalItems > 0

\* a handler that empties the cart once the order is sent
WhatsAppOrder_ClearsCart ==
  /\ CheckoutShown \/ FloatingOrderShown
  /\ cart' = <<>>
  /\ UNCHANGED <<selection, orderNotes, call>>

\* 'Send Order via WhatsApp' of the cart modal (and the floating WhatsApp
\* button of the other variant): handleWhatsAppOrder composes the message
\* and opens the link; no setter is called.
WhatsAppOrder ==
  /\ CheckoutShown \/ FloatingOrderShown
  /\ UNCHANGED <<selection, cart, orderNotes, call>>

\* The render after a handler, no image callback having run.
Shown == Render /\ UNCHANGED <<imageLoadStates, heroImagesLoaded>>

\* A step of the page outside the recorded ordering flow.
Quiet == Shown /\ UNCHANGED event

Next ==
  \/ \E l \in Languages : SetLanguage(l) /\ Quiet
  \/ \E q \in Queries : SetSearchQuery(q) /\ Quiet
  \/ \E m \in SortModes : SetPriceSort(m) /\ Quiet
  \/ \E c \in Range(CategoryIds) : SetSelectedCategory(c) /\ Quiet
  \/ \E item \in Range(displayedItems) : ItemClick(item) /\ Quiet
  \/ \E item \in Range(displayedItems) : CardPlus(item) /\ Quiet
  \/ \E item \in Range(displayedItems) : CardMinus(item) /\ Quiet
  \/ OpenCart /\ Quiet
  \/ CloseCart /\ Quiet
  \/ ClearCart /\ Quiet
  \/ \E i \in 1..Len(cart) : CartRemove(i) /\ Quiet
  \/ \E i \in 1..Len(cart) : CartMinus(i) /\ Quiet
  \/ \E i \in 1..Len(cart) : CartPlus(i) /\ Quiet
  \/ \E text \in NoteTexts : SetOrderNotes(text) /\ Quiet
  \/ ModalAddToCart /\ Quiet
  \/ CloseItemModal /\ Quiet
  \/ WhatsAppOrder /\ Quiet
  \/ Escape /\ Quiet

Spec == Init /\ [][Next]_vars

(***************************************************************************)
(* The ordering flow: the page without the item modal, with the control    *)
(* operated last recorded in event (the controls that only browse leave    *)
(* the record as it is).                                                   *)
(***************************************************************************)
Did(kind, name) == event' = [kind |-> kind, name |-> name, message |-> <<>>]

NextOrder ==
  \/ \E l \in Languages : SetLanguage(l) /\ Quiet
  \/ \E q \in Queries : SetSearchQuery(q) /\ Quiet
  \/ \E m \in SortModes : SetPriceSort(m) /\ Quiet
  \/ \E c \in Range(CategoryIds) : SetSelectedCategory(c) /\ Quiet
  \/ \E item \in Range(displayedItems) :
       CardPlus(item) /\ Shown /\ Did("cardPlus", item.name)
  \/ \E item \in Range(displayedItems) :
       CardMinus(item) /\ Shown /\ Did("cardMinus", item.name)
  \/ OpenCart /\ Quiet
  \/ CloseCart /\ Quiet
  \/ ClearCart /\ Shown /\ Did("clearCart", "")
  \/ \E i \in 1..Len(cart) :
       CartRemove(i) /\ Shown /\ Did("cartRemove", cart[i].name)
  \/ \E i \in 1..Len(cart) :
       CartMinus(i) /\ Shown /\ Did("cartMinus", cart[i].name)
  \/ \E i \in 1..Len(cart) :
       CartPlus(i) /\ Shown /\ Did("cartPlus", cart[i].name)
  \/ \E text \in NoteTexts : SetOrderNotes(text) /\ Shown /\ Did("notes", "")
  \/ /\ WhatsAppOrder /\ Shown
     /\ event' = [kind |-> "order", name |-> "",
                  message |-> OrderMessage(cart, language, orderNotes)]
  \/ Escape /\ Quiet

SpecOrder == Init /\ [][NextOrder]_vars

(***************************************************************************)
(* The two modals: the controls that open and close them and the ones      *)
(* inside them, each recorded in event; an Escape key press is recorded    *)
(* with the modals that were open when it was pressed.                     *)
(***************************************************************************)
OpenModals ==
  IF isItemModalOpen /\ isCartOpen THEN "both"
  ELSE IF isItemModalOpen THEN "item" ELSE "cart"

NextModals ==
  \/ \E item \in Range(displayedItems) :
       ItemClick(item) /\ Shown /\ Did("itemClick", item.name)
  \/ \E item \in Range(displayedItems) :
       CardPlus(item) /\ Shown /\ Did("cardPlus", item.name)
  \/ ModalAddToCart /\ Shown /\ Did("modalAdd", selectedItem.name)
  \/ CloseItemModal /\ Shown /\ Did("closeItem", "")
  \/ OpenCart /\ Shown /\ Did("openCart", "")
  \/ CloseCart /\ Shown /\ Did("closeCart", "")
  \/ \E i \in 1..Len(cart) :
       CartRemove(i) /\ Shown /\ Did("cartRemove", cart[i].name)
  \/ \E text \in NoteTexts : SetOrderNotes(text) /\ Shown /\ Did("notes", "")
  \/ Escape /\ Shown /\ Did("escape", OpenModals)

SpecModals == Init /\ [][NextModals]_vars

(***************************************************************************)
(* Image callbacks.  Every card shows an image (item.image is set); its    *)
(* onLoad and onError both call handleImageLoad(item.name).  The hero      *)
(* images of all categories are requested at mount, and each Image object  *)
(* calls back once, onload or onerror.  The callbacks run between any two  *)
(* handlers of the page.                                                   *)
(***************************************************************************)
\* an updater that drops the flags already set
handleImageLoad_ForgetsOthers(states, itemName) == {itemName}

\* setImageLoadStates(prev => ({ ...prev, [itemName]: true }))
handleImageLoad(states, itemName) == states \cup {itemName}

\* setHeroImagesLoaded(prev => ({ ...prev, [categoryId]: true }))
HeroSettled(loaded, categoryId) == loaded \cup {categoryId}

ImageLoad(item) ==
  /\ imageLoadStates' = handleImageLoad(imageLoadStates, item.name)
  /\ event' = [kind |-> "imageLoad", name |-> item.name, message |-> <<>>]
  /\ UNCHANGED <<selection, cart, orderNotes, call, heroImagesLoaded>>
  /\ Render

ImageError(item) ==
  /\ imageLoadStates' = handleImageLoad(imageLoadStates, item.name)
  /\ event' = [kind |-> "imageError", name |-> item.name, message |-> <<>>]
  /\ UNCHANGED <<selection, cart, orderNotes, call, heroImagesLoaded>>
  /\ Render

HeroLoad(categoryId) ==
  /\ categoryId \notin heroImagesLoaded
  /\ heroImagesLoaded' = HeroSettled(heroImagesLoaded, categoryId)
  /\ event' = [kind |-> "heroLoad", name |-> categoryId, message |-> <<>>]
  /\ UNCHANGED <<selection, cart, orderNotes, call, imageLoadStates>>
  /\ Render

HeroError(categoryId) ==
  /\ categoryId \notin heroImagesLoaded
  /\ heroImagesLoaded' = HeroSettled(heroImagesLoaded, categoryId)
  /\ event' = [kind |-> "heroError", name |-> categoryId, message |-> <<>>]
  /\ UNCHANGED <<selection, cart, orderNotes, call, imageLoadStates>>
  /\ Render

NextImages ==
  \/ \E c \in Range(CategoryIds) : SetSelectedCategory(c) /\ Quiet
  \/ \E item \in Range(displayedItems) : CardPlus(item) /\ Quiet
  \/ OpenCart /\ Quiet
  \/ CloseCart /\ Quiet
  \/ ClearCart /\ Quiet
  \/ \E text \in NoteTexts : SetOrderNotes(text) /\ Quiet
  \/ \E item \in Range(displayedItems) : ImageLoad(item)
  \/ \E item \in Range(displayedItems) : ImageError(item)
  \/ \E c \in Range(CategoryIds) : HeroLoad(c)
  \/ \E c \in Range(CategoryIds) : HeroError(c)

SpecImages == Init /\ [][NextImages]_vars

(***************************************************************************)
(* Browsing only: the page mounted with either catalog, and the controls   *)
(* that feed the filter/sort engine.                                       *)
(***************************************************************************)
InitBrowse == menu \in Catalogs /\ Mounted

NextBrowse ==
  \/ \E l \in Languages : SetLanguage(l) /\ Quiet
  \/ \E q \in BrowseQueries : SetSearchQuery(q) /\ Quiet
  \/ \E m \in SortModes : SetPriceSort(m) /\ Quiet
  \/ \E c \in Range(CategoryIds) : SetSelectedCategory(c) /\ Quiet

SpecBrowse == InitBrowse /\ [][NextBrowse]_vars

(***************************************************************************)
(* The cart store driven directly: addToCart, updateQuantity,              *)
(* removeFromCart and clearCart called in any order with any item, name    *)
(* and quantity argument, non-positive ones included.  call records the    *)
(* call just made and whether the cart had a line of the name before it.   *)
(***************************************************************************)
QtyArgs == (-1)..MaxQty

CallAddToCart(item, quantity) ==
  /\ QuantityOf(cart, item.name) + quantity \in QtyArgs
  /\ cart' = addToCart(cart, item, quantity)
  /\ call' = [op |-> "addToCart", item |-> item, name |-> item.name,
              quantity |-> quantity, had |-> HasLine(cart, item.name)]
  /\ UNCHANGED <<selection, orderNotes, event>>
  /\ Shown

CallUpdateQuantity(itemName, newQuantity) ==
  /\ cart' = updateQuantity(cart, itemName, newQuantity)
  /\ call' = [op |-> "updateQuantity", item |-> NoItem, name |-> itemName,
              quantity |-> newQuantity, had |-> HasLine(cart, itemName)]
  /\ UNCHANGED <<selection, orderNotes, event>>
  /\ Shown

CallRemoveFromCart(itemName) ==
  /\ cart' = removeFromCart(cart, itemName)
  /\ call' = [op |-> "removeFromCart", item |-> NoItem, name |-> itemName,
              quantity |-> 0, had |-> HasLine(cart, itemName)]
  /\ UNCHANGED <<selection, orderNotes, event>>
  /\ Shown

CallClearCart ==
  /\ cart' = <<>>
  /\ orderNotes' = ""
  /\ call' = [op |-> "clearCart", item |-> NoItem, name |-> "", quantity |-> 0,
              had |-> FALSE]
  /\ UNCHANGED <<selection, event>>
  /\ Shown

NextStore ==
  \/ \E item \in Items, quantity \in QtyArgs : CallAddToCart(item, quantity)
  \/ \E itemName \in Names, newQuantity \in QtyArgs :
       CallUpdateQuantity(itemName, newQuantity)
  \/ \E itemName \in Names : CallRemoveFromCart(itemName)
  \/ CallClearCart

SpecStore == Init /\ [][NextStore]_vars

\* The store holding up to three lines: three items of the longer catalog
\* added, set to a quantity (0 removes) and removed in any order.
LineItems == {browseMenu[CategoryIds[1]].items[i] : i \in {1, 2, 4}}

InitLines == menu = browseMenu /\ Mounted

NextLines ==
  \/ \E item \in LineItems, quantity \in 1..MaxQty : CallAddToCart(item, quantity)
  \/ \E item \in LineItems, newQuantity \in 0..MaxQty :
       CallUpdateQuantity(item.name, newQuantity)
  \/ \E item \in LineItems : CallRemoveFromCart(item.name)

SpecLines == InitLines /\ [][NextLines]_vars

\* The store filled by addToCart calls with positive quantities only, and
\* emptied by removeFromCart and clearCart.
NextAdd ==
  \/ \E item \in Items, quantity \in 1..MaxQty : CallAddToCart(item, quantity)
  \/ \E itemName \in Names : CallRemoveFromCart(itemName)
  \/ CallClearCart

SpecAdd == Init /\ [][NextAdd]_vars

(***************************************************************************)
(* Properties of the cart store.                                           *)
(***************************************************************************)
\* The locked unit price of a line as a number; a line without a numeric
\* price counts 0.
UnitPrice(ln) == IF ln.price.t = "num" THEN ln.price.n ELSE 0

\* Sum of quantity * unit price over the lines with index in I.
RECURSIVE SumLines(_, _)
SumLines(c, I) ==
  IF I = {} THEN 0
  ELSE LET i == CHOOSE k \in I : TRUE
       IN c[i].quantity * UnitPrice(c[i]) + SumLines(c, I \ {i})

\* C1: after any sequence of addToCart, updateQuantity, removeFromCart and
\* clearCart calls, getTotalPrice() is the sum over the cart lines of
\* quantity * locked unit price (a missing price counting 0), and 0 for the
\* empty cart.
C1_TotalPriceIsSum ==
  /\ getTotalPrice = SumLines(cart, DOMAIN cart)
  /\ (cart = <<>> => getTotalPrice = 0)

\* One Kofta at 45 and two Fattah at 80, and a third line with price 0.
C1_Witness ==
  /\ call.op # "none"
  /\ Len(cart) = 3
  /\ \E i \in 1..3 : cart[i].price = Num(0) /\ cart[i].quantity > 0
  /\ getTotalPrice = 205

\* C2: no cart line has a quantity <= 0, whatever the arguments the store
\* functions are called with.
C2_QuantitiesPositive == \A i \in 1..Len(cart) : cart[i].quantity > 0

\* C3: the cart holds at most one line per item name.
C3_UniqueNames ==
  \A i, j \in 1..Len(cart) : cart[i].name = cart[j].name => i = j

\* addToCart has just been called for a name the cart already had.
C3_Witness ==
  /\ call.op = "addToCart" /\ call.had
  /\ Len(cart) >= 2
  /\ QuantityOf(cart, call.name) >= 2

\* the items of Items that share the name of item
SameName(item) == {other \in Items : other.name = item.name}

\* C4: from any cart, addToCart(item, q1) followed by addToCart(item2, q2)
\* with item2.name = item.name gives the cart a single addToCart(item, q1 + q2)
\* gives: one line of that name, whose quantity grew by q1 + q2 (and is
\* q1 + q2 when the cart had no such line) and whose unit price is the one the
\* line has after the first call, also when item2.price differs.
C4_AddTwiceIsAddSum ==
  \A item \in Items : \A item2 \in SameName(item) : \A q1, q2 \in QtyArgs :
    LET first == addToCart(cart, item, q1)
        both == addToCart(first, item2, q2)
    IN /\ both = addToCart(cart, item, q1 + q2)
       /\ Cardinality({i \in 1..Len(both) : both[i].name = item.name}) = 1
       /\ QuantityOf(both, item.name) = QuantityOf(cart, item.name) + q1 + q2
       /\ FindLine(both, item.name).price = FindLine(first, item.name).price
       /\ (~HasLine(cart, item.name)
             => FindLine(both, item.name).price = CartPrice(item))

\* addToCart has just been called a second time for a name, with an item
\* whose price is not the one locked in the line.
C4_Witness ==
  /\ call.op = "addToCart" /\ call.had /\ call.quantity > 0
  /\ FindLine(cart, call.name).price # CartPrice(call.item)
  /\ FindLine(cart, call.name).price.t = "num"
  /\ QuantityOf(cart, call.name) >= 2

\* C5: while a line stays in the cart its unit price does not change, under
\* every handler of the page (cart, language, category, search, sort, modal).
C5_PriceLocked ==
  [][\A i \in 1..Len(cart) : \A j \in 1..Len(cart') :
       cart'[j].name = cart[i].name => cart'[j].price = cart[i].price]_vars

\* The Kofta line was locked at 45 and has been added to again; the category
\* shown lists Kofta at another price, and language, search and sort have been
\* changed meanwhile.
C5_Witness ==
  /\ HasLine(cart, "Kofta")
  /\ FindLine(cart, "Kofta").price = Num(45)
  /\ FindLine(cart, "Kofta").quantity = MaxQty
  /\ \E it \in Range(displayedItems) :
       it.name = "Kofta" /\ CartPrice(it) # Num(45)
  /\ language = "en" /\ priceSort = "high-low" /\ selectedCategory = "trays"

\* C6: the unit price addToCart locks for an item with a (non-empty) range
\* price is the minimum of the range.
C6_LockedPriceIsRangeMin ==
  (/\ call.op = "addToCart" /\ ~call.had /\ call.quantity > 0
   /\ IsArray(call.item.price) /\ Len(call.item.price.a) > 0)
    => FindLine(cart, call.name).price = Num(MinOf(call.item.price.a))

\* C7: every cart line has a numeric unit price, so that the cart modal's
\* item.price.toLocaleString() and the line total never raise.
C7_UnitPriceNumeric == \A i \in 1..Len(cart) : cart[i].price.t = "num"

\* C8: updateQuantity(name, newQuantity) with newQuantity <= 0 leaves the
\* cart removeFromCart(name) leaves.
C8_UpdateNonPositiveIsRemove ==
  [][(call'.op = "updateQuantity" /\ call'.quantity <= 0)
       => cart' = removeFromCart(cart, call'.name)]_vars

\* updateQuantity(name, 0) has just removed a line, and others remain.
C8_Witness ==
  /\ call.op = "updateQuantity" /\ call.quantity = 0 /\ call.had
  /\ ~HasLine(cart, call.name)
  /\ Len(cart) >= 1

\* C9: updateQuantity(name, newQuantity) with newQuantity > 0 sets the
\* quantity of the line of that name to newQuantity, changes no other line
\* nor any other field or position, and inserts nothing.
C9_UpdateSetsQuantity ==
  [][(call'.op = "updateQuantity" /\ call'.quantity > 0)
       => /\ Len(cart') = Len(cart)
          /\ \A i \in 1..Len(cart) :
               IF cart[i].name = call'.name
               THEN /\ cart'[i].quantity = call'.quantity
                    /\ cart'[i] = [cart[i] EXCEPT !.quantity = call'.quantity]
               ELSE cart'[i] = cart[i]
          /\ (~call'.had => cart' = cart)]_vars

\* updateQuantity has just set the quantity of the middle line of three.
C9_Witness ==
  /\ call.op = "updateQuantity" /\ call.quantity = 1 /\ call.had
  /\ Len(cart) = 3
  /\ cart[2].name = call.name /\ cart[2].quantity = 1

\* C10: removeFromCart(name) deletes the line of that name and keeps the
\* other lines and their order; without such a line the cart is unchanged;
\* a second removeFromCart(name) changes nothing.
C10_RemoveDeletesOnlyThatLine ==
  [][call'.op = "removeFromCart"
       => /\ ~HasLine(cart', call'.name)
          /\ IF HasLine(cart, call'.name)
             THEN \E k \in 1..Len(cart) :
                    /\ cart[k].name = call'.name
                    /\ Len(cart') = Len(cart) - 1
                    /\ \A i \in 1..Len(cart') :
                         cart'[i] = cart[IF i < k THEN i ELSE i + 1]
             ELSE cart' = cart
          /\ removeFromCart(cart', call'.name) = cart']_vars

\* removeFromCart has just deleted a line and two lines remain.
C10_Witness ==
  /\ call.op = "removeFromCart" /\ call.had
  /\ Len(cart) = 2

\* Sum of the quantities of the lines with index in I.
RECURSIVE SumQuantities(_, _)
SumQuantities(c, I) ==
  IF I = {} THEN 0
  ELSE LET i == CHOOSE k \in I : TRUE
       IN c[i].quantity + SumQuantities(c, I \ {i})

\* C12: getTotalItems() is the sum of the quantities of all cart lines, 0
\* for the empty cart; it is not the number of lines.
C12_TotalItemsIsSumOfQuantities ==
  /\ getTotalItems = SumQuantities(cart, DOMAIN cart)
  /\ (cart = <<>> => getTotalItems = 0)

\* Store calls left two or more lines whose quantities sum to more than
\* their number.
C12_Witness ==
  /\ call.op # "none"
  /\ Len(cart) >= 2
  /\ getTotalItems > Len(cart)

(***************************************************************************)
(* Properties of the ordering flow.                                        *)
(***************************************************************************)
\* C11: the step of clearCart() leaves the cart empty and the notes empty at
\* once (no state in between has only one of them reset), and changes
\* neither the language, the selected category, the search query, the sort
\* mode nor a modal flag.
C11_ClearCartResetsBoth ==
  [][(event'.kind = "clearCart" /\ event' # event)
       => /\ cart' = <<>>
          /\ orderNotes' = ""
          /\ selection' = selection]_vars

\* clearCart() has just emptied a cart, in English, in the second category,
\* sorted and searched, with the cart modal still open.
C11_Witness ==
  /\ event.kind = "clearCart"
  /\ cart = <<>> /\ orderNotes = ""
  /\ isCartOpen /\ language = "en" /\ selectedCategory = CategoryIds[2]
  /\ priceSort = "high-low" /\ searchQuery # ""

\* The names other than n keep their lines and quantities.
OthersKept(n) ==
  \A m \in {cart[i].name : i \in 1..Len(cart)}
        \cup {cart'[i].name : i \in 1..Len(cart')} :
    m # n => QuantityOf(cart', m) = QuantityOf(cart, m)

\* C13: every '+' and '-' click works on the cart as the previous click left
\* it: a '+' raises the quantity of its line by exactly 1 (a card's '+' on
\* an item without a line makes it 1), a '-' lowers it by exactly 1 and
\* removes the line at 0, and no other line changes; so n clicks in a row
\* change the quantity by exactly n.
C13_ClicksApplyToLatestCart ==
  [][\A n \in Names :
       (event'.name = n /\ (event' # event \/ cart' # cart))
         => /\ event'.kind \in {"cardPlus", "cartPlus"}
                 => /\ QuantityOf(cart', n) = QuantityOf(cart, n) + 1
                    /\ OthersKept(n)
            /\ event'.kind \in {"cardMinus", "cartMinus"}
                 => /\ QuantityOf(cart', n)
                         = (IF QuantityOf(cart, n) > 0
                            THEN QuantityOf(cart, n) - 1 ELSE 0)
                    /\ HasLine(cart', n) <=> QuantityOf(cart, n) > 1
                    /\ OthersKept(n)]_vars

\* A '+' of the cart modal has just raised a line, itself made by a card's
\* '+', to a quantity of 2 or more, next to another line.
C13_Witness ==
  /\ event.kind = "cartPlus"
  /\ QuantityOf(cart, event.name) >= 2
  /\ Len(cart) >= 2

\* C20: the message handed to WhatsApp starts with the greeting in the
\* active language, has one bullet line per cart line in cart order (with
\* the line's quantity, its localized name when the language is Arabic and
\* the line has one, else its primary name, and quantity * unit price),
\* then the total line with getTotalPrice(), then the notes section exactly
\* when the notes are not empty, and ends with the thank-you line.
C20_OrderMessageComposed ==
  [][(event'.kind = "order" /\ event' # event)
       => LET msg == event'.message
              n == Len(cart)
          IN /\ Len(msg) = n + 3 + (IF orderNotes # "" THEN 1 ELSE 0)
             /\ msg[1].part = "greeting" /\ msg[1].label = language
             /\ \A i \in 1..n :
                  /\ msg[i + 1].part = "bullet"
                  /\ msg[i + 1].quantity = cart[i].quantity
                  /\ msg[i + 1].name
                       = (IF language = "ar" /\ cart[i].name_ar # ""
                          THEN cart[i].name_ar ELSE cart[i].name)
                  /\ msg[i + 1].amount = cart[i].quantity * UnitPrice(cart[i])
             /\ msg[n + 2].part = "total" /\ msg[n + 2].label = language
             /\ msg[n + 2].amount = getTotalPrice
             /\ orderNotes # ""
                  => /\ msg[n + 3].part = "notes"
                     /\ msg[n + 3].name = orderNotes
             /\ orderNotes = "" => \A k \in 1..Len(msg) : msg[k].part # "notes"
             /\ msg[Len(msg)].part = "thanks"
             /\ msg[Len(msg)].label = language]_vars

\* An order was sent in Arabic with notes and two lines, one named by its
\* localized name and one, without a localized name, by its primary name.
C20_Witness ==
  /\ event.kind = "order"
  /\ Len(cart) = 2 /\ orderNotes # ""
  /\ Len(event.message) = 6
  /\ event.message[1].label = "ar"
  /\ \E i, j \in 2..3 :
       /\ event.message[i].name = "xy"
       /\ event.message[j].name = "Fattah"
       /\ event.message[j].quantity = 2

(***************************************************************************)
(* Properties of the filter/sort engine.                                   *)
(***************************************************************************)
\* Two characters that are the same letter, whatever their case.
SameLetter(a, b) == a = b \/ LowerChar(a) = b \/ a = LowerChar(b)

\* The text contains the query somewhere, letter by letter.
ContainsIgnoringCase(text, q) ==
  \E i \in 0..(Len(Chars(text)) - Len(Chars(q))) :
    \A j \in 1..Len(Chars(q)) : SameLetter(Chars(text)[i + j], Chars(q)[j])

\* The text contains the query somewhere, character by character.
ContainsAsTyped(text, q) ==
  \E i \in 0..(Len(Chars(text)) - Len(Chars(q))) :
    \A j \in 1..Len(Chars(q)) : Chars(text)[i + j] = Chars(q)[j]

\* The items of the selected category that the query selects.
Selected ==
  {it \in Range(menu[selectedCategory].items) :
     \/ searchQuery = ""
     \/ ContainsIgnoringCase(it.name, searchQuery)
     \/ ContainsIgnoringCase(it.description, searchQuery)
     \/ ContainsAsTyped(it.name_ar, searchQuery)
     \/ ContainsAsTyped(it.description_ar, searchQuery)}

\* C14: the filtered list holds exactly the items of the selected category
\* whose name or description contains the query whatever the case, or whose
\* localized name or description contains the query as typed; every item
\* of the category for the empty query; each once, and none of another
\* category.
C14_FilterSelectsMatches ==
  /\ Range(filteredItems) = Selected
  /\ Len(filteredItems) = Cardinality(Selected)
  /\ searchQuery = "" => Len(filteredItems) = Len(menu[selectedCategory].items)

\* In the nine-item category the query "Xy" selects the two items with
\* that localized text and not the item whose localized name is "xy".
C14_Witness ==
  /\ menu = browseMenu /\ selectedCategory = CategoryIds[1]
  /\ searchQuery = "Xy"
  /\ Len(filteredItems) = 2
  /\ \E it \in Range(menu[selectedCategory].items) :
       it.name_ar = "xy" /\ it \notin Range(filteredItems)

\* The items of the selected category in catalog order, and the place of an
\* item among them.
CatalogItems == menu[selectedCategory].items
PlaceOf(it) == CHOOSE i \in 1..Len(CatalogItems) : CatalogItems[i] = it

\* The lowest and the highest price of an item: of its range, or its scalar
\* price, or 0 without a price.  An empty range has neither.
HasPrices(it) == ~(IsArray(it.price) /\ it.price.a = <<>>)
LowestPrice(it) ==
  IF IsArray(it.price)
  THEN CHOOSE x \in Range(it.price.a) : \A y \in Range(it.price.a) : x <= y
  ELSE IF it.price.t = "num" THEN it.price.n ELSE 0
HighestPrice(it) ==
  IF IsArray(it.price)
  THEN CHOOSE x \in Range(it.price.a) : \A y \in Range(it.price.a) : x >= y
  ELSE IF it.price.t = "num" THEN it.price.n ELSE 0

\* C15: the output is a permutation of the filtered items; in low-high mode
\* it ascends by the lowest price of the items, in high-low mode it
\* descends by their highest price, and otherwise it is in catalog order.
C15_SortOrdersByPrice ==
  /\ Range(filteredItems) = Selected
  /\ Len(filteredItems) = Cardinality(Selected)
  /\ \A i, j \in 1..Len(filteredItems) :
       (i < j /\ HasPrices(filteredItems[i]) /\ HasPrices(filteredItems[j]))
         => /\ priceSort = "low-high"
                 => LowestPrice(filteredItems[i]) <= LowestPrice(filteredItems[j])
            /\ priceSort = "high-low"
                 => HighestPrice(filteredItems[i]) >= HighestPrice(filteredItems[j])
  /\ priceSort = "default"
       => \A i, j \in 1..Len(filteredItems) :
            i < j => PlaceOf(filteredItems[i]) < PlaceOf(filteredItems[j])

\* The whole nine-item category sorted low to high, which moves the item
\* priced [120, 80] before the item priced 120 and is not the catalog order.
C15_Witness ==
  /\ menu = browseMenu /\ selectedCategory = CategoryIds[1]
  /\ searchQuery = "" /\ priceSort = "low-high"
  /\ Len(filteredItems) = 9
  /\ filteredItems # CatalogItems
  /\ \E i, j \in 1..9 :
       /\ i < j
       /\ filteredItems[i].price = Arr(<<120, 80>>)
       /\ filteredItems[j].price = Num(120)

\* C16: in low-high and high-low mode items of equal sort key keep the
\* order they have in the catalog.
C16_SortIsStable ==
  \A i, j \in 1..Len(filteredItems) :
    (i < j /\ HasPrices(filteredItems[i]) /\ HasPrices(filteredItems[j]))
      => /\ (priceSort = "low-high"
             /\ LowestPrice(filteredItems[i]) = LowestPrice(filteredItems[j]))
              => PlaceOf(filteredItems[i]) < PlaceOf(filteredItems[j])
         /\ (priceSort = "high-low"
             /\ HighestPrice(filteredItems[i]) = HighestPrice(filteredItems[j]))
              => PlaceOf(filteredItems[i]) < PlaceOf(filteredItems[j])

\* The nine-item category sorted high to low, with three items of highest
\* price 120 next to each other.
C16_Witness ==
  /\ menu = browseMenu /\ selectedCategory = CategoryIds[1]
  /\ searchQuery = "" /\ priceSort = "high-low"
  /\ HighestPrice(filteredItems[1]) = 120
  /\ HighestPrice(filteredItems[3]) = 120
  /\ filteredItems # CatalogItems

\* C17: no step of the page (sorting, searching, changing the category,
\* changing the cart) changes the catalog: every category keeps its items
\* in their order.
C17_CatalogNeverMutated == [][menu' = menu]_vars

\* The list on display is sorted into another order than the catalog's and
\* the cart has a line, and the catalog is as it was loaded.
C17_Witness ==
  /\ priceSort = "high-low" /\ searchQuery = ""
  /\ filteredItems # CatalogItems
  /\ Len(cart) >= 1
  /\ menu = menuData

\* C18: the list on display is the first visibleItems items of the filtered
\* and sorted list (all of them when there are fewer), and the cap has its
\* initial value in every state, so also in the first one that shows the
\* list of a new category or query.
C18_DisplayedIsCappedPrefix ==
  /\ visibleItems = InitialVisibleItems
  /\ Len(displayedItems) = (IF Len(filteredItems) > visibleItems
                            THEN visibleItems ELSE Len(filteredItems))
  /\ \A i \in 1..Len(displayedItems) : displayedItems[i] = filteredItems[i]

\* The nine-item category sorted low to high after a change of category:
\* eight items are shown and the ninth, the item with the empty range, is
\* cut off.
C18_Witness ==
  /\ menu = browseMenu /\ selectedCategory = CategoryIds[1]
  /\ searchQuery = "" /\ priceSort = "low-high"
  /\ Len(filteredItems) = 9
  /\ Len(displayedItems) = 8
  /\ filteredItems[9].price = Arr(<<>>)
  /\ filteredItems[9] \notin Range(displayedItems)

\* C19: a search that matches no item of the category is no error: the
\* engine returns the empty list, the notice is shown exactly when no card
\* is shown, and typing the query changes neither the cart, the notes nor
\* the rest of the selection.
C19_EmptySearchIsNoError ==
  /\ [](/\ Selected = {} => filteredItems = <<>>
        /\ NoResultsNotice <=> Range(displayedItems) = {})
  /\ [][searchQuery' # searchQuery
          => /\ cart' = cart /\ orderNotes' = orderNotes
             /\ selectedCategory' = selectedCategory /\ priceSort' = priceSort
             /\ language' = language /\ isCartOpen' = isCartOpen
             /\ isItemModalOpen' = isItemModalOpen
             /\ selectedItem' = selectedItem]_vars

\* A query that matches nothing in the second category, typed with a line
\* in the cart and notes written: no card, the notice, cart and notes kept.
C19_Witness ==
  /\ searchQuery # "" /\ selectedCategory = CategoryIds[2]
  /\ filteredItems = <<>> /\ NoResultsNotice
  /\ Len(cart) >= 1 /\ orderNotes # ""

(***************************************************************************)
(* Properties of the page as a whole.                                      *)
(***************************************************************************)
\* C21: the step of handleWhatsAppOrder changes no state of the page: cart
\* lines, notes, language, selection and modal flags are as before it, and
\* the order can be sent again from the state it leaves.
C21_OrderChangesNoState ==
  [][(event'.kind = "order" /\ event' # event)
       => /\ cart' = cart
          /\ orderNotes' = orderNotes
          /\ selection' = selection
          /\ menu' = menu
          /\ (isCartOpen' /\ Len(cart') > 0) \/ TotalItemsOf(cart') > 0]_vars

\* An order was just sent from the open cart modal, in English, with two
\* lines and notes, all still there.
C21_Witness ==
  /\ event.kind = "order"
  /\ event.message = OrderMessage(cart, language, orderNotes)
  /\ isCartOpen /\ language = "en"
  /\ Len(cart) = 2 /\ orderNotes # ""

\* C22: no step ever unsets an image flag; a callback of an item image, on
\* load as on error, sets the flag of its item and nothing else, a callback
\* of a hero image sets the so far unset flag of its category and nothing
\* else, and neither changes the cart, the notes or the catalog.
C22_ImageCallbacksOnlySetFlags ==
  [][/\ imageLoadStates \subseteq imageLoadStates'
     /\ heroImagesLoaded \subseteq heroImagesLoaded'
     /\ (event' # event
           \/ <<imageLoadStates, heroImagesLoaded>>' # <<imageLoadStates, heroImagesLoaded>>)
          => /\ event'.kind \in {"imageLoad", "imageError"}
                  => /\ imageLoadStates' = imageLoadStates \cup {event'.name}
                     /\ heroImagesLoaded' = heroImagesLoaded
                     /\ cart' = cart /\ orderNotes' = orderNotes /\ menu' = menu
             /\ event'.kind \in {"heroLoad", "heroError"}
                  => /\ event'.name \notin heroImagesLoaded
                     /\ heroImagesLoaded' = heroImagesLoaded \cup {event'.name}
                     /\ imageLoadStates' = imageLoadStates
                     /\ cart' = cart /\ orderNotes' = orderNotes /\ menu' = menu]_vars

\* An item image has just failed after the other item's image arrived; the
\* hero of the second category has arrived and that of the first has not;
\* the cart has a line and notes are written.
C22_Witness ==
  /\ event.kind = "imageError"
  /\ Cardinality(imageLoadStates) = 2
  /\ heroImagesLoaded = {CategoryIds[2]}
  /\ Len(cart) >= 1 /\ orderNotes # ""

\* C23: the session starts with an empty cart, empty notes and query, the
\* default sort mode, both modals closed and the first category of the
\* catalog selected; in every state the selected category is a category of
\* the catalog.
C23_StartsEmptyOnFirstCategory ==
  /\ (/\ cart = <<>> /\ orderNotes = "" /\ searchQuery = ""
      /\ priceSort = "default"
      /\ ~isCartOpen /\ ~isItemModalOpen
      /\ selectedCategory = CategoryIds[1])
  /\ [](selectedCategory \in DOMAIN menu)

\* Later in the session: another category selected, a line in the cart, a
\* query typed and the cart modal open.
C23_Witness ==
  /\ selectedCategory = CategoryIds[2] /\ selectedCategory \in DOMAIN menu
  /\ Len(cart) >= 1 /\ searchQuery # "" /\ isCartOpen

\* The objects whose texts the page shows: the items of the selected
\* category, the categories themselves, and the item of the detail modal
\* (none at first).
TextSources ==
  Range(CatalogItems) \cup {menu[c] : c \in DOMAIN menu} \cup {selectedItem}

\* C24: in Arabic getText gives the localized field when the object has a
\* non-empty one and the primary field otherwise; in English always the
\* primary field; and the empty string for a missing object or a field
\* the object does not have.
C24_GetTextFallsBack ==
  \A item \in TextSources, field \in TextFields :
    LET text == getText(item, field, language)
        has(key) == item # NoItem /\ key \in DOMAIN item /\ item[key] # ""
    IN /\ (language = "ar" /\ has(LocalizedKey(field)))
            => text = item[LocalizedKey(field)]
       /\ (language = "ar" /\ ~has(LocalizedKey(field)) /\ has(field))
            => text = item[field]
       /\ (language = "en" /\ has(field)) => text = item[field]
       /\ ~has(field) /\ (language = "en" \/ ~has(LocalizedKey(field)))
            => text = ""

\* In Arabic, with the longer catalog: an item named by its localized
\* name, an item without one named by its primary name, and no item in
\* the detail modal.
C24_Witness ==
  /\ language = "ar" /\ menu = browseMenu /\ selectedItem = NoItem
  /\ \E a, b \in Range(CatalogItems) :
       /\ a.name_ar # "" /\ getText(a, "name", language) = a.name_ar
       /\ b.name_ar = "" /\ getText(b, "name", language) = b.name
  /\ getText(selectedItem, "name", language) = ""

\* The prices the page formats: those of the items of the selected
\* category, and an empty string and a range of two equal prices.
PricesShown ==
  {it.price : it \in Range(CatalogItems)} \cup {EmptyString, Arr(<<45, 45>>)}

\* C25: a range is rendered as its minimum and its maximum when they
\* differ, in whatever order the range lists them, and as one value when
\* they are equal; a null, undefined, empty-string or empty-range price is
\* rendered as the missing-price literal of the language.
C25_FormatPriceRendersRange ==
  \A p \in PricesShown :
    LET text == formatPrice(p, language)
        lo == LowestPrice([price |-> p])
        hi == HighestPrice([price |-> p])
    IN /\ (IsArray(p) /\ p.a # <<>> /\ lo # hi) => text.values = <<lo, hi>>
       /\ (IsArray(p) /\ p.a # <<>> /\ lo = hi) => text.values = <<lo>>
       /\ (p \in {Null, Undefined, EmptyString, Arr(<<>>)})
            => text = MissingPriceLiteral(language)

\* The longer catalog in Arabic: the range listed as [120, 80] reads
\* 80 - 120, and the empty range and the null price read as the literal.
C25_Witness ==
  /\ menu = browseMenu /\ language = "ar"
  /\ Arr(<<120, 80>>) \in PricesShown
  /\ formatPrice(Arr(<<120, 80>>), language) = Formatted("LE", <<80, 120>>)
  /\ {Null, Undefined, Arr(<<>>)} \subseteq PricesShown
  /\ formatPrice(Null, language) = MissingPriceLiteral("ar")

\* C26: whenever an order-submission control is on the page (the checkout
\* button of the cart modal or the floating order button) the cart has at
\* least one line, and so it has when an order has just been submitted; an
\* open cart modal whose cart was emptied offers no such control.
C26_OrderOnlyFromNonEmptyCart ==
  /\ (CheckoutShown \/ FloatingOrderShown) => Len(cart) >= 1
  /\ (cart = <<>>) => ~ENABLED WhatsAppOrder
  /\ (event.kind = "order") => Len(cart) >= 1 /\ event.message # <<>>

\* An order submitted from the cart modal, which is still open.
C26_Witness ==
  /\ event.kind = "order" /\ isCartOpen /\ CheckoutShown
  /\ Len(cart) = 2

\* C27: a step that changes the language, the selected category, the search
\* query, the sort mode or the cart-modal flag, or that opens the item
\* modal, leaves the cart lines (names, unit prices, quantities, order) and
\* the notes as they were; a step that closes the item modal leaves the
\* notes as they were, and the cart too unless it is the modal's add
\* button, which adds the selected item once.
C27_BrowsingKeepsCart ==
  [][/\ (\/ language' # language
         \/ selectedCategory' # selectedCategory
         \/ searchQuery' # searchQuery
         \/ priceSort' # priceSort
         \/ isCartOpen' # isCartOpen
         \/ (isItemModalOpen' /\ ~isItemModalOpen))
          => cart' = cart /\ orderNotes' = orderNotes
     /\ (isItemModalOpen /\ ~isItemModalOpen')
          => /\ orderNotes' = orderNotes
             /\ cart' = cart \/ cart' = addToCart(cart, selectedItem, 1)]_vars

\* The second category is shown, sorted and searched, in English, both
\* modals closed again, and the cart still has its notes and the line
\* added from the first category (at that category's price) before the one
\* added from the second.
C27_Witness ==
  /\ selectedCategory = CategoryIds[2] /\ language = "en"
  /\ priceSort # "default" /\ searchQuery # ""
  /\ ~isCartOpen /\ ~isItemModalOpen /\ selectedItem # NoItem
  /\ orderNotes # ""
  /\ Len(cart) = 2
  /\ cart[1].name = menuData[CategoryIds[1]].items[1].name
  /\ cart[1].price = menuData[CategoryIds[1]].items[1].price
  /\ cart[2].name = menuData[CategoryIds[2]].items[2].name

\* The cart without its line i.
WithoutLine(c, i) == SubSeq(c, 1, i - 1) \o SubSeq(c, i + 1, Len(c))

\* Cart d is cart c with, at most, another quantity in the line of name n.
SameButQuantity(c, d, n) ==
  /\ Len(d) = Len(c)
  /\ \A i \in 1..Len(c) :
       IF c[i].name = n
       THEN d[i] = [c[i] EXCEPT !.quantity = d[i].quantity]
       ELSE d[i] = c[i]

\* C28: the cart keeps the order in which its lines were first added.
\* addToCart of a name without a line puts the new line after all the
\* others, which stay as they are; addToCart of a name with a line and
\* updateQuantity with a positive value change the quantity of that line
\* where it stands and nothing else; removeFromCart and updateQuantity with
\* a value of 0 or less take the line out and leave the others in the
\* order they had.
C28_LinesKeepInsertionOrder ==
  [][LET n == call'.name
     IN /\ (call'.op = "addToCart" /\ ~call'.had)
             => /\ Len(cart') = Len(cart) + 1
                /\ SubSeq(cart', 1, Len(cart)) = cart
                /\ cart'[Len(cart')].name = n
        /\ (call'.op = "addToCart" /\ call'.had)
             => /\ SameButQuantity(cart, cart', n)
                /\ QuantityOf(cart', n) = QuantityOf(cart, n) + call'.quantity
        /\ (call'.op = "updateQuantity" /\ call'.quantity > 0)
             => /\ SameButQuantity(cart, cart', n)
                /\ call'.had => QuantityOf(cart', n) = call'.quantity
        /\ (\/ call'.op = "removeFromCart"
            \/ call'.op = "updateQuantity" /\ call'.quantity <= 0)
             => IF call'.had
                THEN \E i \in 1..Len(cart) :
                       cart[i].name = n /\ cart' = WithoutLine(cart, i)
                ELSE cart' = cart]_vars

\* One of three lines was just removed, and the two others are in the
\* order in which they were added, which is not the order of the catalog.
C28_Witness ==
  /\ call.op \in {"removeFromCart", "updateQuantity"} /\ call.had
  /\ Len(cart) = 2
  /\ cart[1].name = browseMenu[CategoryIds[1]].items[4].name
  /\ cart[2].name = browseMenu[CategoryIds[1]].items[1].name
  /\ cart[1].quantity = MaxQty

\* C29: a step that changes the cart through a remove button or a '+' or
\* '-' (removeFromCart, updateQuantity, addToCart) leaves the notes as they
\* were, also when it takes the last line out and when it puts a first
\* line into an empty cart; the notes change only in a step of clearCart(),
\* which empties them, or of the notes field, which sets them to the text
\* typed.
C29_NotesOutliveLines ==
  [][/\ (event'.kind \in {"cartRemove", "cartMinus", "cardMinus", "cartPlus", "cardPlus"})
          => orderNotes' = orderNotes
     /\ (cart' # cart /\ (cart = <<>> \/ cart' = <<>>) /\ event'.kind # "clearCart")
          => orderNotes' = orderNotes
     /\ (orderNotes' # orderNotes)
          => /\ event'.kind \in {"clearCart", "notes"}
             /\ event'.kind = "clearCart" => orderNotes' = ""
             /\ event'.kind = "notes" => cart' = cart]_vars

\* A card's '+' has just put a first line into an empty cart, and the notes
\* are not empty: they were typed over an earlier cart (the field is shown
\* only over lines), which was emptied line by line (clearCart() would have
\* emptied them), and they outlived it.
C29_Witness ==
  /\ event.kind = "cardPlus"
  /\ Len(cart) = 1 /\ cart[1].quantity = 1 /\ cart[1].name = event.name
  /\ orderNotes # ""

\* C30: the cart modal goes from closed to open only in a step of its open
\* button, taken while getTotalItems() > 0; the item modal is open only
\* while a selected item is set; an Escape key press leaves every modal
\* closed and changes neither the cart, the notes nor the selected item.
C30_ModalsOpenAndClose ==
  /\ [](isItemModalOpen => selectedItem # NoItem)
  /\ [][/\ (~isCartOpen /\ isCartOpen')
              => event'.kind = "openCart" /\ getTotalItems > 0 /\ cart' = cart
        /\ (event'.kind = "escape")
              => /\ ~isItemModalOpen' /\ ~isCartOpen'
                 /\ cart' = cart
                 /\ orderNotes' = orderNotes
                 /\ selectedItem' = selectedItem]_vars

\* Escape was just pressed with both modals open: both are closed, and the
\* cart, the notes and the selected item are still there.
C30_Witness ==
  /\ event.kind = "escape" /\ event.name = "both"
  /\ ~isItemModalOpen /\ ~isCartOpen
  /\ Len(cart) >= 1 /\ orderNotes # "" /\ selectedItem # NoItem

====
